---- MODULE Spec2Model ----
(***************************************************************************)
(* Model of download_helper.py: one HTTP GET of a fixed URL, a status      *)
(* check, and a chunked copy of the response body into a file opened in    *)
(* "wb" mode inside a with-block, under two except clauses.                *)
(*                                                                         *)
(* The library calls are modelled by their documented behaviour:           *)
(*   requests.get          returns a response or raises a RequestException *)
(*   raise_for_status      raises HTTPError iff 400 <= status < 600        *)
(*   open(path, "wb")      creates or truncates the file, or raises OSError*)
(*   iter_content(n)       yields the body in order, in non-empty chunks   *)
(*                         of at most n bytes, or raises RequestException  *)
(*   f.write(chunk)        appends the chunk (write-through), or raises    *)
(*                         OSError leaving the file as it was              *)
(*   requests.exceptions.RequestException is a subclass of IOError         *)
(* The script can be run again once it has ended; the file persists.       *)
(***************************************************************************)
EXTENDS Integers, Sequences, FiniteSets, TLC

\* ---------------------------------------------------------------- bounds
MaxLen == 3
MaxChunk == 2
MaxRuns == 2

\* ------------------------------------------------------ program constants
CHUNK_SIZE == 8192

Bytes == {0, 1}

RECURSIVE SeqsUpTo(_)
SeqsUpTo(n) ==
    IF n = 0 THEN {<<>>}
    ELSE LET shorter == SeqsUpTo(n - 1)
         IN  shorter \cup {Append(s, b) : s \in {t \in shorter : Len(t) = n - 1}, b \in Bytes}

Bodies == SeqsUpTo(MaxLen)

\* chunk sizes a run may be configured with; the program's own is CHUNK_SIZE
ChunkSizes == (1..MaxChunk) \cup {CHUNK_SIZE}

\* status codes a response may carry
Statuses == {101, 200, 300, 304, 400, 404, 500, 599}

\* statuses whose response never carries a body (1xx, 204, 304)
NoBodyStatus(s) == (100 <= s /\ s < 200) \/ s = 204 \/ s = 304

NoExc == "none"

\* exceptions each call can raise
GetErrors == {"requests.ConnectionError", "requests.Timeout"}
ReadErrors == {"requests.ChunkedEncodingError", "requests.ConnectionError"}
OpenErrors == {"FileNotFoundError", "PermissionError"}
WriteErrors == {"OSError"}

\* the class hierarchy: requests' RequestException derives from IOError,
\* which is OSError
Parent(c) ==
    CASE c = "requests.HTTPError" -> "requests.RequestException"
      [] c = "requests.ConnectionError" -> "requests.RequestException"
      [] c = "requests.Timeout" -> "requests.RequestException"
      [] c = "requests.ChunkedEncodingError" -> "requests.RequestException"
      [] c = "requests.RequestException" -> "OSError"
      [] c = "FileNotFoundError" -> "OSError"
      [] c = "PermissionError" -> "OSError"
      [] c = "OSError" -> "Exception"
      [] OTHER -> "BaseException"

RECURSIVE IsSubclass(_, _)
IsSubclass(c, base) ==
    IF c = base THEN TRUE
    ELSE IF c = "BaseException" THEN FALSE
    ELSE IsSubclass(Parent(c), base)

ExceptClausesIOErrorFirst ==
    << [cls |-> "OSError", msg |-> "io"],
       [cls |-> "requests.RequestException", msg |-> "network"] >>

ExceptClausesNoIOError ==
    << [cls |-> "requests.RequestException", msg |-> "network"] >>

\* the except clauses, in source order (IOError is OSError)
ExceptClauses ==
    << [cls |-> "requests.RequestException", msg |-> "network"],
       [cls |-> "OSError", msg |-> "io"] >>

\* the message of the first clause that matches, or "uncaught"
Handler(e) ==
    LET hits == {i \in 1..Len(ExceptClauses) : IsSubclass(e, ExceptClauses[i].cls)}
    IN  IF hits = {} THEN "uncaught"
        ELSE ExceptClauses[CHOOSE i \in hits : \A j \in hits : i <= j].msg

RaisesOnlyServerError(s) == 500 <= s /\ s < 600

RaisesOnlyClientError(s) == 400 <= s /\ s < 500

\* response.raise_for_status()
RaisesForStatus(s) == 400 <= s /\ s < 600

OpenAppend(data) == data

\* open(path, "wb"): the contents after the open
OpenWb(data) == <<>>

WriteReplaces(data, c) == c

WriteDrops(data, c) == data

\* f.write(chunk): the contents after the write
FWrite(data, c) == data \o c

NextChunkShort(b, p, n) == IF n > 1 THEN SubSeq(b, p + 1, p + n - 1) ELSE SubSeq(b, p + 1, p + n)

\* the next chunk iter_content yields: n bytes from offset p
NextChunk(b, p, n) == SubSeq(b, p + 1, p + n)

HandleLeaksOnError(e) == e # NoExc

\* the with-block's exit: whether the handle is still open afterwards
HandleAfterExit(e) == FALSE

Min(a, b) == IF a < b THEN a ELSE b

RECURSIVE Flatten(_)
Flatten(ss) == IF ss = <<>> THEN <<>> ELSE Head(ss) \o Flatten(Tail(ss))

VARIABLES
    pc,            \* position in the script
    run,           \* number of this run of the script
    chunkSize,     \* chunk_size of this run
    body,          \* bytes of the remote resource
    status,        \* status code of the response (0: no response)
    pos,           \* bytes of the response body consumed by iter_content
    chunk,         \* the loop variable: chunk read and not yet written
    fileExists,    \* the destination file on disk
    fileData,
    handleOpen,    \* f is open
    exc,           \* exception propagating
    failedAt,      \* call that raised: get, status, open, read, write
    output,        \* lines printed by this run
    gets,          \* GET requests issued by this run
    written,       \* chunks written by this run, in order
    preExists,     \* the destination file when this run began
    preData,
    prevStatus,    \* status of the previous run if it ended DONE, else 0
    prevChunkSize  \* chunk_size of the previous run if it ended DONE, else 0

vars == <<pc, run, chunkSize, body, status, pos, chunk, fileExists, fileData,
          handleOpen, exc, failedAt, output, gets, written, preExists, preData,
          prevStatus, prevChunkSize>>

envVars == <<run, chunkSize, body, preExists, preData, prevStatus, prevChunkSize>>

\* the body the response streams
Payload == IF NoBodyStatus(status) THEN <<>> ELSE body

Terminal == {"DONE", "FAILED", "CRASHED"}

Init ==
    /\ pc = "START"
    /\ run = 1
    /\ chunkSize \in ChunkSizes
    /\ body \in Bodies
    /\ status = 0
    /\ pos = 0
    /\ chunk = <<>>
    /\ fileExists \in BOOLEAN
    /\ fileData \in (IF fileExists THEN Bodies ELSE {<<>>})
    /\ handleOpen = FALSE
    /\ exc = NoExc
    /\ failedAt = "none"
    /\ output = <<>>
    /\ gets = 0
    /\ written = <<>>
    /\ preExists = fileExists
    /\ preData = fileData
    /\ prevStatus = 0
    /\ prevChunkSize = 0

\* requests.get(url, stream=True) returns a response
GetOk ==
    /\ pc = "START"
    /\ gets' = gets + 1
    /\ \E s \in Statuses : status' = s
    /\ pc' = "REQUEST_SENT"
    /\ UNCHANGED <<pos, chunk, fileExists, fileData, handleOpen, exc, failedAt,
                   output, written>>
    /\ UNCHANGED envVars

\* requests.get raises (connection refused, timeout, ...)
GetFail ==
    /\ pc = "START"
    /\ gets' = gets + 1
    /\ \E e \in GetErrors : exc' = e
    /\ failedAt' = "get"
    /\ pc' = "RAISED"
    /\ UNCHANGED <<status, pos, chunk, fileExists, fileData, handleOpen, output, written>>
    /\ UNCHANGED envVars

\* response.raise_for_status()
CheckStatus ==
    /\ pc = "REQUEST_SENT"
    /\ IF RaisesForStatus(status)
       THEN /\ exc' = "requests.HTTPError"
            /\ failedAt' = "status"
            /\ pc' = "RAISED"
       ELSE /\ pc' = "STATUS_CHECKED"
            /\ UNCHANGED <<exc, failedAt>>
    /\ UNCHANGED <<status, pos, chunk, fileExists, fileData, handleOpen, output,
                   gets, written>>
    /\ UNCHANGED envVars

\* open("public/yolov8n.onnx", "wb") succeeds; the with-block is entered
OpenOk ==
    /\ pc = "STATUS_CHECKED"
    /\ fileExists' = TRUE
    /\ fileData' = OpenWb(fileData)
    /\ handleOpen' = TRUE
    /\ pc' = "STREAMING"
    /\ UNCHANGED <<status, pos, chunk, exc, failedAt, output, gets, written>>
    /\ UNCHANGED envVars

\* open raises: a missing parent directory (then the file cannot exist) or
\* no permission; the file is left as it was
OpenFail ==
    /\ pc = "STATUS_CHECKED"
    /\ \E e \in OpenErrors :
          /\ (e = "FileNotFoundError" => ~fileExists)
          /\ exc' = e
    /\ failedAt' = "open"
    /\ pc' = "RAISED"
    /\ UNCHANGED <<status, pos, chunk, fileExists, fileData, handleOpen, output,
                   gets, written>>
    /\ UNCHANGED envVars

\* the for statement takes the next chunk from response.iter_content
ReadChunk ==
    /\ pc = "STREAMING"
    /\ exc = NoExc
    /\ chunk = <<>>
    /\ pos < Len(Payload)
    /\ \E n \in 1..Min(chunkSize, Len(Payload) - pos) :
          /\ chunk' = NextChunk(Payload, pos, n)
          /\ pos' = pos + n
    /\ UNCHANGED <<pc, status, fileExists, fileData, handleOpen, exc, failedAt,
                   output, gets, written>>
    /\ UNCHANGED envVars

\* iter_content raises while reading from the connection
ReadFail ==
    /\ pc = "STREAMING"
    /\ exc = NoExc
    /\ chunk = <<>>
    /\ \E e \in ReadErrors : exc' = e
    /\ failedAt' = "read"
    /\ UNCHANGED <<pc, status, pos, chunk, fileExists, fileData, handleOpen,
                   output, gets, written>>
    /\ UNCHANGED envVars

\* f.write(chunk)
WriteChunk ==
    /\ pc = "STREAMING"
    /\ exc = NoExc
    /\ chunk # <<>>
    /\ fileData' = FWrite(fileData, chunk)
    /\ written' = Append(written, chunk)
    /\ chunk' = <<>>
    /\ UNCHANGED <<pc, status, pos, fileExists, handleOpen, exc, failedAt, output, gets>>
    /\ UNCHANGED envVars

\* f.write raises (disk full, ...)
WriteFail ==
    /\ pc = "STREAMING"
    /\ exc = NoExc
    /\ chunk # <<>>
    /\ \E e \in WriteErrors : exc' = e
    /\ failedAt' = "write"
    /\ UNCHANGED <<pc, status, pos, chunk, fileExists, fileData, handleOpen,
                   output, gets, written>>
    /\ UNCHANGED envVars

\* the with-block is left, the loop exhausted or an exception propagating
ExitWith ==
    /\ pc = "STREAMING"
    /\ exc # NoExc \/ (chunk = <<>> /\ pos = Len(Payload))
    /\ handleOpen' = HandleAfterExit(exc)
    /\ pc' = IF exc = NoExc THEN "CLOSED" ELSE "RAISED"
    /\ UNCHANGED <<status, pos, chunk, fileExists, fileData, exc, failedAt,
                   output, gets, written>>
    /\ UNCHANGED envVars

\* print("Model downloaded and saved successfully.")
PrintSuccess ==
    /\ pc = "CLOSED"
    /\ output' = Append(output, [msg |-> "success", err |-> NoExc])
    /\ pc' = "DONE"
    /\ UNCHANGED <<status, pos, chunk, fileExists, fileData, handleOpen, exc,
                   failedAt, gets, written>>
    /\ UNCHANGED envVars

\* the except clauses
Except ==
    /\ pc = "RAISED"
    /\ IF Handler(exc) = "uncaught"
       THEN /\ pc' = "CRASHED"
            /\ UNCHANGED output
       ELSE /\ pc' = "FAILED"
            /\ output' = Append(output, [msg |-> Handler(exc), err |-> exc])
    /\ UNCHANGED <<status, pos, chunk, fileExists, fileData, handleOpen, exc,
                   failedAt, gets, written>>
    /\ UNCHANGED envVars

\* the script is run again, against the same remote resource
Rerun ==
    /\ pc \in Terminal
    /\ run < MaxRuns
    /\ run' = run + 1
    /\ chunkSize' \in ChunkSizes
    /\ prevStatus' = IF pc = "DONE" THEN status ELSE 0
    /\ prevChunkSize' = IF pc = "DONE" THEN chunkSize ELSE 0
    /\ preExists' = fileExists
    /\ preData' = fileData
    /\ pc' = "START"
    /\ status' = 0
    /\ pos' = 0
    /\ chunk' = <<>>
    /\ handleOpen' = FALSE
    /\ exc' = NoExc
    /\ failedAt' = "none"
    /\ output' = <<>>
    /\ gets' = 0
    /\ written' = <<>>
    /\ UNCHANGED <<body, fileExists, fileData>>

Next ==
    \/ GetOk
    \/ GetFail
    \/ CheckStatus
    \/ OpenOk
    \/ OpenFail
    \/ ReadChunk
    \/ ReadFail
    \/ WriteChunk
    \/ WriteFail
    \/ ExitWith
    \/ PrintSuccess
    \/ Except
    \/ Rerun

Spec == Init /\ [][Next]_vars

\* ------------------------------------------------------------ properties
IsError(s) == 400 <= s /\ s < 600

IsPrefix(a, b) == Len(a) <= Len(b) /\ SubSeq(b, 1, Len(a)) = a

NetworkLine == [msg |-> "network", err |-> exc]
IoLine == [msg |-> "io", err |-> exc]
SuccessLine == [msg |-> "success", err |-> NoExc]

\* the destination file has been opened in this run
Opened == pc \in {"STREAMING", "CLOSED", "DONE"} \/ failedAt \in {"read", "write"}

\* C1: in a run whose response status is 4xx or 5xx the destination file is
\* never opened, created, truncated or written (it stays as it was when the
\* run began), no line other than the network-error line is printed, and the
\* run ends FAILED with exactly the network-error line.
C1_HttpFailureKeepsFile ==
    (status # 0 /\ IsError(status)) =>
        /\ fileExists = preExists
        /\ fileData = preData
        /\ ~handleOpen
        /\ written = <<>>
        /\ \A i \in 1..Len(output) : output[i].msg = "network"
        /\ pc \in Terminal => (pc = "FAILED" /\ output = <<NetworkLine>>)

C1_Witness ==
    /\ pc = "FAILED"
    /\ status = 404
    /\ failedAt = "status"
    /\ preExists
    /\ preData # <<>>
    /\ preData # body
    /\ fileData = preData
    /\ output = <<NetworkLine>>

\* C2: a run with status 200 in which nothing fails ends DONE, and then the
\* destination file exists and holds exactly the body (whatever it held, or
\* did not hold, before) and exactly the success line has been printed.
C2_SuccessWritesBody ==
    /\ (status = 200 /\ pc = "DONE") =>
          /\ fileExists
          /\ fileData = body
          /\ Len(fileData) = Len(body)
          /\ output = <<SuccessLine>>
    /\ (status = 200 /\ pc \in Terminal /\ failedAt = "none") => pc = "DONE"

C2_Witness ==
    /\ pc = "DONE"
    /\ status = 200
    /\ preExists
    /\ Len(preData) > Len(body)
    /\ Len(body) > 1
    /\ fileData = body

\* C3: a run in which the open of the destination file or a write to it
\* fails ends FAILED with exactly the I/O-error line printed, and no run
\* ends with an exception that escaped the except clauses.
C3_IoFailureReported ==
    /\ pc # "CRASHED"
    /\ (failedAt \in {"open", "write"} /\ pc \in Terminal) =>
          /\ pc = "FAILED"
          /\ output = <<IoLine>>

C3_Witness ==
    /\ pc = "FAILED"
    /\ failedAt = "open"
    /\ exc = "FileNotFoundError"
    /\ status = 200
    /\ ~fileExists
    /\ output = <<IoLine>>

\* C4 as stated: every run whose response status is outside 200-299 ends
\* with the network-error line, without the success line and without the
\* destination file having been opened.
C4_Original ==
    (status # 0 /\ ~(200 <= status /\ status < 300) /\ pc \in Terminal) =>
        /\ output = <<NetworkLine>>
        /\ ~Opened
        /\ fileExists = preExists
        /\ fileData = preData

\* C4 amended: the status check fails exactly for the statuses 400-599; a
\* response with any other status (1xx, 2xx, 3xx) passes it, and a run with
\* such a status in which nothing else fails ends DONE with the success line
\* and the file holding the response body.
C4_OnlyErrorStatusesFail ==
    (status # 0 /\ pc \notin {"START", "REQUEST_SENT"}) =>
        /\ failedAt = "status" <=> IsError(status)
        /\ (failedAt = "status" /\ pc \in Terminal) => output = <<NetworkLine>>
        /\ (~IsError(status) /\ failedAt = "none" /\ pc \in Terminal) =>
              /\ output = <<SuccessLine>>
              /\ fileExists
              /\ fileData = Payload

C4_Witness ==
    /\ pc = "DONE"
    /\ status = 304
    /\ preExists
    /\ preData # <<>>
    /\ fileData = <<>>
    /\ output = <<SuccessLine>>

\* C5: a successful run leaves in the file the in-order concatenation of the
\* chunks it wrote, which is the body whatever the chunk boundaries were
\* (every chunk non-empty and of at most chunk_size bytes); so two successful
\* runs on the same response with different chunk sizes leave identical files.
C5_ChunkingTransparent ==
    pc = "DONE" =>
        /\ \A i \in 1..Len(written) :
              Len(written[i]) >= 1 /\ Len(written[i]) <= chunkSize
        /\ Flatten(written) = Payload
        /\ fileData = Flatten(written)
        /\ (prevStatus = status /\ prevChunkSize # chunkSize /\ prevChunkSize # 0) =>
              (preExists /\ fileData = preData)

C5_Witness ==
    /\ pc = "DONE"
    /\ status = 200
    /\ prevStatus = 200
    /\ prevChunkSize = CHUNK_SIZE
    /\ chunkSize = 2
    /\ Len(body) = 3
    /\ Len(written) = 2
    /\ fileData = preData

\* C6: when two runs in succession both succeed with status 200, the file
\* after the second run equals the file after the first: the body once, not
\* appended to or duplicated.
C6_RepeatedRunIdempotent ==
    (pc = "DONE" /\ status = 200 /\ prevStatus = 200) =>
        /\ fileExists /\ preExists
        /\ fileData = preData
        /\ Len(fileData) = Len(body)

C6_Witness ==
    /\ pc = "DONE"
    /\ run = 2
    /\ status = 200
    /\ prevStatus = 200
    /\ Len(body) >= 2
    /\ fileData = body

\* C7: the file handle is open only inside the with-block; it is closed in
\* every terminal state and whenever any line has been printed.
C7_HandleReleased ==
    /\ handleOpen => pc = "STREAMING"
    /\ pc \in Terminal => ~handleOpen
    /\ output # <<>> => ~handleOpen

C7_Witness ==
    /\ pc = "FAILED"
    /\ failedAt = "write"
    /\ written # <<>>
    /\ ~handleOpen

\* C8 as stated: a failure of the request or of the status check ends with
\* the network-error line, and every failure after the status check (open,
\* chunk read, chunk write) ends with the I/O-error line.
C8_Original ==
    pc \in Terminal =>
        /\ failedAt \in {"get", "status"} => output = <<NetworkLine>>
        /\ failedAt \in {"open", "read", "write"} => output = <<IoLine>>

\* C8 amended: a failure of the request, of the status check or of a chunk
\* read from the response ends FAILED with the network-error line; a failure
\* of the open or of a chunk write ends FAILED with the I/O-error line.
C8_FailureEdges ==
    (pc \in Terminal /\ failedAt # "none") =>
        /\ pc = "FAILED"
        /\ failedAt \in {"get", "status", "read"} => output = <<NetworkLine>>
        /\ failedAt \in {"open", "write"} => output = <<IoLine>>

C8_Witness ==
    /\ pc = "FAILED"
    /\ failedAt = "read"
    /\ written # <<>>
    /\ exc = "requests.ChunkedEncodingError"
    /\ output = <<NetworkLine>>

C10_State ==
    /\ gets <= 1
    /\ Len(output) <= 1
    /\ pc \in Terminal =>
          /\ gets = 1
          /\ Len(output) = 1
          /\ output[1].msg \in {"success", "network", "io"}
          /\ output[1].msg = "success" <=>
                /\ status # 0
                /\ ~IsError(status)
                /\ failedAt = "none"
                /\ pos = Len(Payload)
                /\ Flatten(written) = Payload

C10_Step ==
    (failedAt # "none" /\ run' = run) =>
        /\ gets' = gets
        /\ fileExists' = fileExists
        /\ fileData' = fileData
        /\ written' = written
        /\ failedAt' = failedAt
        /\ pc' \in {"STREAMING", "RAISED", "FAILED", "CRASHED"}

\* C10: a run issues exactly one GET and prints exactly one of the three
\* lines; the success line is printed iff the status check passed and the
\* whole body was read and written without error; after a failure the run
\* issues no request and writes nothing more.
C10_OneRequestOneVerdict == []C10_State /\ [][C10_Step]_vars

C10_Witness ==
    /\ pc = "FAILED"
    /\ failedAt = "get"
    /\ gets = 1
    /\ status = 0
    /\ output = <<NetworkLine>>
====
